---- MODULE Spec2Model ----
(***************************************************************************)
(* State-machine model of the backer backup engine (lib/backer).           *)
(*                                                                         *)
(* One ZFS filesystem (guid FsGuid) carries the Backsnaps of the           *)
(* configured backup ids Bids; one remote store receives the streams, the  *)
(* Meta sidecars and the named heads.  OS processes Procs run the CLI      *)
(* operations backup, index and restore concurrently; each step of an      *)
(* operation that touches the filesystem or the remote is one action, and  *)
(* every such step may also raise (Fail).                                  *)
(*                                                                         *)
(* Naming.  Meta.Key is defined in common.py with the attributes fsguid,   *)
(* id, sid, n.  backer.py reads key.id_ and fs.py / s3.py read key.fsid    *)
(* and key.bid; the model reads these as the attributes id and fsguid of   *)
(* the same Key.  backer.py:46 calls Meta.create(fs, metakey) with the Key *)
(* the Backsnap is created for; that two-argument form taking a Key is the *)
(* one modelled by MetaCreate.  restore() is given a meta_discovery that   *)
(* reads the current head of the backup id.                                *)
(*                                                                         *)
(* The clock now moves in SpecIndexing and SpecDaemon only (Tick).  In the *)
(* other specifications it stands still: all snapshots carry the same      *)
(* creation second and the order of a chain is the order in which zfs list *)
(* returns its snapshots.                                                  *)
(***************************************************************************)
EXTENDS Integers, Sequences, FiniteSets, TLC

(***************************************************************************)
(* Bounds of the model.                                                    *)
(***************************************************************************)
MaxN == 2        \* highest generation number n a series may reach
MaxData == 1     \* number of times the dataset is written to
MaxOps == 3      \* number of operation invocations
MaxTime == 2     \* seconds the daemon is followed for

Procs == {"p1", "p2"}
Bids == {"a", "b"}
NoProc == "-"

\* the two threads of the daemon, and cfg.list_backups() in its order
Workers == {"indexer", "backer"}
BackupList == <<"a", "b">>

\* the period of the configured backups, in seconds
Period == 1
FsGuid == "g"

VERSION == "10"
VERSION_PROP == "backer:version"
STATE_PROP == "backer:state"

\* the configured remote: FsRemote(root)
Remote == [type_ |-> "fs", cfg |-> [root |-> "/r"]]

\* the remotes a backup can be configured with: FsRemote under two roots,
\* and S3Remote(s3, bucket, prefix)
RemoteQ == [type_ |-> "fs", cfg |-> [root |-> "/q"]]
RemoteS3 == [type_ |-> "s3", cfg |-> [bucket |-> "b", prefix |-> "p"]]
Remotes == {Remote, RemoteQ, RemoteS3}

IndexNames == <<"current", "bid_current", "bid_sid_current", "bid_day">>

(***************************************************************************)
(* Keys, Metas, States and their serialised forms.                         *)
(***************************************************************************)
Key(fsguid, id_, sid, n) == [fsguid |-> fsguid, id |-> id_, sid |-> sid, n |-> n]

KeyToMap(key) == [fsguid |-> key.fsguid, id |-> key.id, sid |-> key.sid, n |-> key.n]

KeyFromMap(keymap) == Key(keymap.fsguid, keymap.id, keymap.sid, keymap.n)

\* from_key that numbers the generation one too high
KeyFromKey_skip(key, n) == Key(key.fsguid, key.id, key.sid, n + 1)

KeyFromKey(key, n) == Key(key.fsguid, key.id, key.sid, n)

KeyCreate(fsguid, id_, sid) == Key(fsguid, id_, sid, 0)

MetaToMap(meta) ==
    [key |-> KeyToMap(meta.key), creation |-> meta.creation,
     sidcreation |-> meta.sidcreation]

MetaFromMap(metamap) ==
    [key |-> KeyFromMap(metamap.key), creation |-> metamap.creation,
     sidcreation |-> metamap.sidcreation]

\* Meta.create, the time stamps: creation = int(utcnow()) is passed to Meta
\* both as creation and as sidcreation
MetaCreation(t) == [creation |-> t, sidcreation |-> t]

MetaCreate(metakey, t) ==
    [key |-> metakey, creation |-> MetaCreation(t).creation,
     sidcreation |-> MetaCreation(t).sidcreation]

\* remote_state: None, or {'indexes': {name: path}}
NoRemoteState == [none |-> TRUE, indexes |-> <<>>]

StateToData(state) ==
    [meta |-> MetaToMap(state.meta), stored |-> state.stored,
     remote_type |-> state.remote_type, remote_cfg |-> state.remote_cfg,
     remote_state |-> state.remote_state]

StateFromData(data) ==
    [meta |-> MetaFromMap(data.meta), stored |-> data.stored,
     remote_type |-> data.remote_type, remote_cfg |-> data.remote_cfg,
     remote_state |-> data.remote_state]

StateCreate(metakey, remote, t) ==
    [meta |-> MetaCreate(metakey, t), stored |-> FALSE,
     remote_type |-> remote.type_, remote_cfg |-> remote.cfg,
     remote_state |-> NoRemoteState]

\* Backsnap.name: "backer:<VERSION>-<id>-<sid>-<n>"
BacksnapName(metakey) == <<"backer", VERSION, metakey.id, metakey.sid, metakey.n>>

(***************************************************************************)
(* State.                                                                  *)
(***************************************************************************)
VARIABLES
    now,      \* wall clock read by the operations
    content,  \* content of the dataset, as a change counter
    snaps,    \* the snapshots of the filesystem, in creation (txg) order
    nsid,     \* number of series ids drawn so far
    rdata,    \* remote: key -> the blocks of the object data/<n>.data.xz
    rmeta,    \* remote: key -> Meta sidecar data/<n>.meta
    rnamed,   \* remote: path -> Meta of the named heads
    lock,     \* holder of the lock file of each backup id
    proc,     \* local state of each process
    gone,     \* history: the snapshots destroyed so far
    nops,     \* number of operations started
    backup_remote,  \* the remote of the configured backup (Backup.remote)
    shelf,    \* the objects held by each remote that is not the configured one
    finished, \* daemon: the termination flag (threading.Event)
    worker,   \* daemon: local state of the indexer and the backer thread
    put_call, \* the arguments of the put_data call that returned last, if any
    create_call  \* the Backsnap.create call made last, if any, and its outcome

vars == <<now, content, snaps, nsid, rdata, rmeta, rnamed, lock, proc, gone, nops,
          backup_remote, shelf, finished, worker, put_call,
          create_call>>

fsvars == <<snaps, nsid, gone>>
remotevars == <<rdata, rmeta, rnamed>>
cfgvars == <<backup_remote, shelf>>
daemonvars == <<finished, worker>>
callvars == <<put_call, create_call>>
envvars == <<now, content, cfgvars, daemonvars, callvars>>

Idle ==
    [op |-> "none", pc |-> "idle", res |-> "none", bid |-> "-", force |-> FALSE,
     backsnaps |-> <<>>, i |-> 0, previous |-> 0, todo |-> <<>>,
     created |-> 0, puts |-> <<>>, eff |-> {}, head0 |-> -1, headc |-> -1,
     c0 |-> -1, failedat |-> "-", held |-> FALSE, k |-> 0, named |-> <<>>, indexes |-> <<>>,
     latest |-> <<>>, rn |-> 0,
     tgt |-> [exists |-> FALSE, snaps |-> <<>>, content |-> 0]]

Init ==
    /\ now = 0
    /\ content = 0
    /\ snaps = <<>>
    /\ nsid = 0
    /\ rdata = <<>>
    /\ rmeta = <<>>
    /\ rnamed = <<>>
    /\ lock = [b \in Bids |-> NoProc]
    /\ proc = [p \in Procs |-> Idle]
    /\ gone = {}
    /\ nops = 0
    /\ backup_remote = Remote
    /\ shelf = [r \in Remotes |-> [rdata |-> <<>>, rmeta |-> <<>>, rnamed |-> <<>>]]
    /\ finished = FALSE
    /\ worker = [w \in Workers |->
                    [pc |-> IF w = "backer" THEN "scan" ELSE "top", idx |-> 1,
                     next_ |-> [b \in Bids |-> 0],
                     res |-> [b \in Bids |-> "none"]]]
    /\ put_call = <<>>
    /\ create_call = <<>>

(***************************************************************************)
(* Local filesystem driver (zfs.py).                                       *)
(***************************************************************************)
SnapExists(name) == \E j \in 1..Len(snaps) : snaps[j].name = name

SnapIndex(name) == CHOOSE j \in 1..Len(snaps) : snaps[j].name = name

GetSnapshot(name) == snaps[SnapIndex(name)]

get_creation(name) == GetSnapshot(name).creation

\* a dataset that always differs from its snapshots
check_is_current_never(name) == FALSE

check_is_current(name) == GetSnapshot(name).content = content

\* Filesystem.snapshot(name, props): the new snapshot, taken atomically with its properties
FsSnapshot(name, version, statedata) ==
    [name |-> name, creation |-> now, version |-> version, state |-> statedata,
     content |-> content]

\* Snapshot.set(STATE_PROP, statedata)
SnapshotSet(name, statedata) == [snaps EXCEPT ![SnapIndex(name)].state = statedata]

\* a destroy that leaves the snapshot in place
SnapshotDestroy_keep(name) == snaps

\* Snapshot.destroy()
SnapshotDestroy(name) ==
    SubSeq(snaps, 1, SnapIndex(name) - 1) \o SubSeq(snaps, SnapIndex(name) + 1, Len(snaps))

NoName == <<>>

\* an incremental send that carries no changes
Send_nodelta(self, other) ==
    IF other = NoName
    THEN [from |-> NoName, to |-> self, base |-> GetSnapshot(self).content, delta |-> 0]
    ELSE [from |-> other, to |-> self, base |-> 0, delta |-> 0]

\* Snapshot.send: zfs send -p [-i other] self
Send(self, other) ==
    IF other = NoName
    THEN [from |-> NoName, to |-> self, base |-> GetSnapshot(self).content, delta |-> 0]
    ELSE [from |-> other, to |-> self, base |-> 0,
          delta |-> GetSnapshot(self).content - GetSnapshot(other).content]

\* zfs recv -u accepts a full stream into a new filesystem only, and an
\* incremental stream only on top of the snapshot it was taken from
CanRecv(tgt, stream) ==
    IF stream.from = NoName THEN ~tgt.exists
    ELSE tgt.exists /\ tgt.snaps # <<>> /\ tgt.snaps[Len(tgt.snaps)] = stream.from

\* a receive that leaves no snapshot on the target
Recv_nosnap(tgt, stream) ==
    IF stream.from = NoName
    THEN [exists |-> TRUE, snaps |-> <<>>, content |-> stream.base]
    ELSE [exists |-> TRUE, snaps |-> <<>>, content |-> tgt.content + stream.delta]

Recv(tgt, stream) ==
    IF stream.from = NoName
    THEN [exists |-> TRUE, snaps |-> <<stream.to>>, content |-> stream.base]
    ELSE [exists |-> TRUE, snaps |-> Append(tgt.snaps, stream.to),
          content |-> tgt.content + stream.delta]

(***************************************************************************)
(* Backsnap and the enumeration of the local chains (backer.py).           *)
(***************************************************************************)
\* Backsnap.__init__: the state is parsed once and cached in the object
Backsnap(snapshot) == [name |-> snapshot.name, state |-> StateFromData(snapshot.state)]

\* a validation that accepts every remote
validate_remote_any(backsnap, remote) == TRUE

validate_remote(backsnap, remote) ==
    /\ remote.type_ = backsnap.state.remote_type
    /\ remote.cfg = backsnap.state.remote_cfg

\* every Backsnap taken as stored
is_stored_always(backsnap) == TRUE

is_stored(backsnap) == backsnap.state.stored

\* Backsnap.create
BacksnapCreate(remote, metakey) ==
    FsSnapshot(BacksnapName(metakey), VERSION, StateToData(StateCreate(metakey, remote, now)))

\* the Backsnaps of backup id_, in the order list_snapshots gives them
ListBacksnaps(id_) ==
    LET mine(s) == s.version = VERSION /\ StateFromData(s.state).meta.key.id = id_
        kept == SelectSeq(snaps, mine)
    IN [j \in 1..Len(kept) |-> Backsnap(kept[j])]

\* an insertion that puts a Backsnap before the ones of the same creation
RECURSIVE InsertByCreation_unstable(_, _)
InsertByCreation_unstable(sorted, b) ==
    IF sorted = <<>> THEN <<b>>
    ELSE IF get_creation(sorted[Len(sorted)].name) < get_creation(b.name)
         THEN Append(sorted, b)
    ELSE Append(InsertByCreation_unstable(SubSeq(sorted, 1, Len(sorted) - 1), b),
                sorted[Len(sorted)])

RECURSIVE InsertByCreation(_, _)
InsertByCreation(sorted, b) ==
    IF sorted = <<>> THEN <<b>>
    ELSE IF get_creation(sorted[Len(sorted)].name) <= get_creation(b.name)
         THEN Append(sorted, b)
         ELSE Append(InsertByCreation(SubSeq(sorted, 1, Len(sorted) - 1), b),
                     sorted[Len(sorted)])

\* sorted(backsnaps, key=lambda x: x.snapshot.get_creation()), a stable sort
RECURSIVE SortByCreation(_)
SortByCreation(bs) ==
    IF bs = <<>> THEN <<>>
    ELSE InsertByCreation(SortByCreation(SubSeq(bs, 1, Len(bs) - 1)), bs[Len(bs)])

\* the sids of ListBacksnaps(id_), in order of first appearance
RECURSIVE SidOrder(_)
SidOrder(bs) ==
    IF bs = <<>> THEN <<>>
    ELSE LET rest == SidOrder(SubSeq(bs, 1, Len(bs) - 1))
             sid == bs[Len(bs)].state.meta.key.sid
         IN IF \E j \in 1..Len(rest) : rest[j] = sid THEN rest ELSE Append(rest, sid)

get_all_backsnaps(id_) ==
    LET bs == ListBacksnaps(id_)
        order == SidOrder(bs)
        ofsid(sid) == SelectSeq(bs, LAMBDA b : b.state.meta.key.sid = sid)
    IN [sid \in {order[j] : j \in 1..Len(order)} |-> SortByCreation(ofsid(sid))]

\* a selection that takes the first series listed
LatestBacksnap_first(all, order, latest) ==
    IF order = <<>> THEN latest
    ELSE <<all[Head(order)][Len(all[Head(order)])]>>

RECURSIVE LatestBacksnap(_, _, _)
LatestBacksnap(all, order, latest) ==
    IF order = <<>> THEN latest
    ELSE LET backsnaps == all[Head(order)]
             last == backsnaps[Len(backsnaps)]
         IN LatestBacksnap(all, Tail(order),
                IF latest = <<>> \/ get_creation(latest[1].name) < get_creation(last.name)
                THEN <<last>> ELSE latest)

get_latest_backsnaps(id_) ==
    LET all == get_all_backsnaps(id_)
        latest == LatestBacksnap(all, SidOrder(ListBacksnaps(id_)), <<>>)
    IN IF latest = <<>> THEN <<>> ELSE all[latest[1].state.meta.key.sid]

\* the keys of a sequence of Backsnaps
RECURSIVE KeysOf(_)
KeysOf(bs) ==
    IF bs = <<>> THEN <<>> ELSE <<bs[1].state.meta.key>> \o KeysOf(Tail(bs))

\* the last Backsnap of the chain, stored or not
get_latest_stored_any(id_) ==
    LET backsnaps == get_latest_backsnaps(id_)
    IN IF Len(backsnaps) = 0 THEN <<>> ELSE <<backsnaps[Len(backsnaps)]>>

\* <<>> for None
get_latest_stored(id_) ==
    LET backsnaps == SelectSeq(get_latest_backsnaps(id_), is_stored)
    IN IF Len(backsnaps) = 0 THEN <<>> ELSE <<backsnaps[Len(backsnaps)]>>

(***************************************************************************)
(* Remote backend (fs.py): object layout and operations.                   *)
(***************************************************************************)
DayOf(t) == t

\* _get_currentpath(fsid, bid=None, sid=None); "-" and 0 stand for None
get_currentpath(fsid, bid, sid) ==
    [kind |-> "current.meta", fsid |-> fsid, bid |-> bid, sid |-> sid, node |-> 0]

\* _get_index_metapath(fsid, bid, nodename)
get_index_metapath(fsid, bid, nodename) ==
    [kind |-> "index", fsid |-> fsid, bid |-> bid, sid |-> 0, node |-> nodename]

\* the dict named_indexes of FsRemote.index, for the day `day`
named_indexes(key, day) ==
    [current |-> get_currentpath(key.fsguid, "-", 0),
     bid_current |-> get_currentpath(key.fsguid, key.id, 0),
     bid_sid_current |-> get_currentpath(key.fsguid, key.id, key.sid),
     bid_day |-> get_index_metapath(key.fsguid, key.id, day)]

\* the length of the xz file of a stream, in blocks: it grows with the data
Size(stream) == 1 + stream.base + stream.delta

\* lzma.open(.., 'wb') fed with the stream: the blocks of its xz file
Encode(stream) == [j \in 1..Size(stream) |-> [stream |-> stream, at |-> j]]

\* the object under the key's data path; empty when there is none
ObjectAt(metakey) == IF metakey \in DOMAIN rdata THEN rdata[metakey] ELSE <<>>

\* blocks written from offset 0 to a file opened with os.O_CREAT |
\* os.O_WRONLY: nothing truncates it, what it held beyond them stays
Overwrite(old, blocks) == blocks \o SubSeq(old, Len(blocks) + 1, Len(old))

\* FsRemote.put_data having written the blocks given
FsPutData(metakey, blocks) == (metakey :> Overwrite(ObjectAt(metakey), blocks)) @@ rdata

\* S3Remote.put_data: the spooled xz file becomes the object in one upload
S3PutData(metakey, blocks) == (metakey :> blocks) @@ rdata

\* put_data: the object written under the key's data path
put_data(metakey, stream) ==
    IF backup_remote.type_ = "s3" THEN S3PutData(metakey, Encode(stream))
    ELSE FsPutData(metakey, Encode(stream))

\* put_data interrupted after w blocks: FsRemote has created the file and
\* written them, S3Remote has uploaded nothing
put_data_partial(metakey, stream, w) ==
    IF backup_remote.type_ = "s3" THEN rdata
    ELSE FsPutData(metakey, SubSeq(Encode(stream), 1, w))

\* lzma.open(.., 'rb') reads the object through: the first xz stream has to
\* be whole, what follows it and is no xz stream is ignored
Decodable(object) ==
    /\ object # <<>>
    /\ Len(object) >= Size(object[1].stream)
    /\ \A j \in 1..Size(object[1].stream) :
          object[j] = [stream |-> object[1].stream, at |-> j]

\* put_meta that loses the sidecar
put_meta_lost(meta) == rmeta

put_meta(meta) == (meta.key :> meta) @@ rmeta

\* _put_meta(meta, path) on a named head
put_named(meta, path) == (path :> meta) @@ rnamed

\* get_data succeeds on a fully written object only
HasData(metakey) == metakey \in DOMAIN rdata /\ Decodable(rdata[metakey])

get_data(metakey) == rdata[metakey][1].stream

\* an index() that writes every name
NextIndex_all(indexes, named, k) == k

\* the first position from k on whose name index() has to write; 5 when none
NextIndex(indexes, named, k) ==
    LET todo == {j \in k..Len(IndexNames) :
                    ~(IndexNames[j] \in DOMAIN indexes
                      /\ indexes[IndexNames[j]] = named[IndexNames[j]])}
    IN IF todo = {} THEN Len(IndexNames) + 1
       ELSE CHOOSE j \in todo : \A l \in todo : j <= l

(***************************************************************************)
(* Position of a process inside Backup._backup.                            *)
(***************************************************************************)
\* a chain walk that uploads the last Backsnap only
RECURSIVE LoopTop_last(_, _, _)
LoopTop_last(backsnaps, i, prev) ==
    IF i > Len(backsnaps) THEN [pc |-> "ret", i |-> i, previous |-> prev]
    ELSE IF ~is_stored(backsnaps[i]) /\ i = Len(backsnaps)
         THEN [pc |-> "put_data", i |-> i, previous |-> prev]
    ELSE IF prev # 0 /\ is_stored(backsnaps[i])
         THEN [pc |-> "destroy", i |-> i, previous |-> prev]
    ELSE LoopTop_last(backsnaps, i + 1, i)

\* a chain walk that destroys previous before backsnaps[i] is stored
RECURSIVE LoopTop_early(_, _, _)
LoopTop_early(backsnaps, i, prev) ==
    IF i > Len(backsnaps) THEN [pc |-> "ret", i |-> i, previous |-> prev]
    ELSE IF prev # 0 THEN [pc |-> "destroy", i |-> i, previous |-> prev]
    ELSE IF ~is_stored(backsnaps[i]) THEN [pc |-> "put_data", i |-> i, previous |-> prev]
    ELSE LoopTop_early(backsnaps, i + 1, i)

\* top of the loop body for backsnaps[i], previous = backsnaps[prev] (0: None)
RECURSIVE LoopTop(_, _, _)
LoopTop(backsnaps, i, prev) ==
    IF i > Len(backsnaps) THEN [pc |-> "ret", i |-> i, previous |-> prev]
    ELSE IF ~is_stored(backsnaps[i]) THEN [pc |-> "put_data", i |-> i, previous |-> prev]
    ELSE IF prev # 0 THEN [pc |-> "destroy", i |-> i, previous |-> prev]
    ELSE LoopTop(backsnaps, i + 1, i)

\* the local record of process p at position at
At(r, at) ==
    [r EXCEPT !.pc = at.pc, !.i = at.i, !.previous = at.previous,
              !.res = IF at.pc = "ret" THEN "ok" ELSE r.res]

\* a walk that goes from put_meta to set_stored without index
EnterIndex_skip(r) == [r EXCEPT !.pc = "set_stored"]

\* entry of remote.index(backsnaps[i]): named_indexes and the recorded state
EnterIndex(r) ==
    LET backsnap == r.backsnaps[r.i]
        named == named_indexes(backsnap.state.meta.key, DayOf(now))
        indexes == backsnap.state.remote_state.indexes
        k == NextIndex(indexes, named, 1)
    IN [r EXCEPT !.named = named, !.indexes = indexes, !.k = k,
                 !.pc = IF k > Len(IndexNames) THEN "set_remote_state" ELSE "index"]

Running(p) == proc[p].pc \notin {"idle", "ret"}

\* a lock that is never found held
LockFree_always(bid) == TRUE

LockFree(bid) == lock[bid] = NoProc

(***************************************************************************)
(* Backup.backup and Backup._backup.                                       *)
(***************************************************************************)
\* backup(): the lock file is free and is taken
BackupStart(p, bid, force) ==
    /\ proc[p].pc = "idle"
    /\ nops < MaxOps
    /\ LockFree(bid)
    /\ lock' = [lock EXCEPT ![bid] = p]
    /\ proc' = [proc EXCEPT ![p] =
                   [Idle EXCEPT !.op = "backup", !.pc = "begin", !.bid = bid,
                                !.force = force, !.held = TRUE]]
    /\ nops' = nops + 1
    /\ UNCHANGED <<fsvars, remotevars, envvars>>

\* backup(): lockf(LOCK_EX | LOCK_NB) raises, the lock is held by another process
BackupLocked(p, bid, force) ==
    /\ proc[p].pc = "idle"
    /\ nops < MaxOps
    /\ ~LockFree(bid)
    /\ proc' = [proc EXCEPT ![p] =
                   [Idle EXCEPT !.op = "backup", !.pc = "ret", !.res = "failed",
                                !.bid = bid, !.force = force]]
    /\ nops' = nops + 1
    /\ UNCHANGED <<fsvars, remotevars, envvars, lock>>

\* _backup lines 156-165: the chain is read and, when needed, extended
Begin(p) ==
    /\ proc[p].op = "backup" /\ proc[p].pc = "begin"
    /\ LET bid == proc[p].bid
           backsnaps == get_latest_backsnaps(bid)
           baseline == BacksnapCreate(backup_remote, KeyCreate(FsGuid, bid, nsid + 1))
           empty == Len(backsnaps) = 0
           latest == IF empty THEN Backsnap(baseline) ELSE backsnaps[Len(backsnaps)]
           current == ~empty /\ check_is_current(latest.name)
           extend == empty \/ proc[p].force \/ ~current
           metakey == IF empty THEN KeyCreate(FsGuid, bid, nsid + 1)
                      ELSE KeyFromKey(latest.state.meta.key, latest.state.meta.key.n + 1)
           snapshot == BacksnapCreate(backup_remote, metakey)
           chain == IF extend THEN Append(backsnaps, Backsnap(snapshot)) ELSE backsnaps
           unstored == SelectSeq(backsnaps, LAMBDA b : ~b.state.stored)
           r == [proc[p] EXCEPT
                    !.backsnaps = chain,
                    !.created = IF extend THEN 1 ELSE 0,
                    !.eff = IF extend THEN {"create"} ELSE {},
                    !.todo = KeysOf(unstored),
                    !.head0 = IF empty THEN -1 ELSE latest.state.meta.key.n,
                    !.headc = IF empty THEN -1 ELSE GetSnapshot(latest.name).content,
                    !.c0 = content]
       IN /\ extend => /\ metakey.n <= MaxN
                       /\ empty \/ validate_remote(latest, backup_remote)
                       /\ ~SnapExists(snapshot.name)
          /\ snaps' = IF extend THEN Append(snaps, snapshot) ELSE snaps
          /\ nsid' = IF empty THEN nsid + 1 ELSE nsid
          /\ proc' = [proc EXCEPT ![p] = At(r, LoopTop(chain, 1, 0))]
    /\ UNCHANGED <<gone, remotevars, envvars, lock, nops>>

\* lines 171-176: send piped into remote.put_data
PutData(p) ==
    /\ proc[p].op = "backup" /\ proc[p].pc = "put_data"
    /\ LET r == proc[p]
           backsnap == r.backsnaps[r.i]
           other == IF r.previous = 0 THEN NoName ELSE r.backsnaps[r.previous].name
       IN /\ SnapExists(backsnap.name)
          /\ other = NoName \/ SnapExists(other)
          /\ rdata' = put_data(backsnap.state.meta.key, Send(backsnap.name, other))
          /\ proc' = [proc EXCEPT ![p] =
                         [r EXCEPT !.pc = "put_meta",
                                   !.puts = Append(r.puts, backsnap.state.meta.key),
                                   !.eff = r.eff \cup {"put_data"}]]
    /\ UNCHANGED <<fsvars, rmeta, rnamed, envvars, lock, nops>>

\* lines 171-176 raising while the stream is being written
PutDataFail(p) ==
    /\ proc[p].op = "backup" /\ proc[p].pc = "put_data"
    /\ LET r == proc[p]
           backsnap == r.backsnaps[r.i]
           other == IF r.previous = 0 THEN NoName ELSE r.backsnaps[r.previous].name
       IN /\ SnapExists(backsnap.name)
          /\ other = NoName \/ SnapExists(other)
          /\ \E w \in 0..(Size(Send(backsnap.name, other)) - 1) :
                rdata' = put_data_partial(backsnap.state.meta.key,
                                          Send(backsnap.name, other), w)
          /\ proc' = [proc EXCEPT ![p] =
                         [r EXCEPT !.pc = "ret", !.res = "failed",
                                   !.failedat = "put_data",
                                   !.eff = r.eff \cup {"put_data"}]]
    /\ UNCHANGED <<fsvars, rmeta, rnamed, envvars, lock, nops>>

\* a walk that indexes every generation it uploads
PutMeta_indexall(p) ==
    /\ proc[p].op = "backup" /\ proc[p].pc = "put_meta"
    /\ LET r == proc[p]
           backsnap == r.backsnaps[r.i]
           r2 == [r EXCEPT !.eff = r.eff \cup {"put_meta"}]
       IN /\ rmeta' = put_meta(backsnap.state.meta)
          /\ proc' = [proc EXCEPT ![p] = EnterIndex(r2)]
    /\ UNCHANGED <<fsvars, rdata, rnamed, envvars, lock, nops>>

\* line 177: remote.put_meta, then line 179
PutMeta(p) ==
    /\ proc[p].op = "backup" /\ proc[p].pc = "put_meta"
    /\ LET r == proc[p]
           backsnap == r.backsnaps[r.i]
           r2 == [r EXCEPT !.eff = r.eff \cup {"put_meta"}]
       IN /\ rmeta' = put_meta(backsnap.state.meta)
          /\ proc' = [proc EXCEPT ![p] =
                         IF r.i = Len(r.backsnaps) THEN EnterIndex(r2)
                         ELSE [r2 EXCEPT !.pc = "set_stored"]]
    /\ UNCHANGED <<fsvars, rdata, rnamed, envvars, lock, nops>>

\* FsRemote.index lines 143-148: one named head is written
IndexPut(p) ==
    /\ proc[p].pc = "index"
    /\ LET r == proc[p]
           backsnap == r.backsnaps[r.i]
           name == IndexNames[r.k]
           path == r.named[name]
           indexes == (name :> path) @@ r.indexes
           k == NextIndex(indexes, r.named, r.k + 1)
       IN /\ rnamed' = put_named(backsnap.state.meta, path)
          /\ proc' = [proc EXCEPT ![p] =
                         [r EXCEPT !.indexes = indexes, !.k = k,
                                   !.eff = r.eff \cup {"index"},
                                   !.pc = IF k > Len(IndexNames) THEN "set_remote_state"
                                          ELSE "index"]]
    /\ UNCHANGED <<fsvars, rdata, rmeta, envvars, lock, nops>>

\* FsRemote.index line 149: backsnap.set_remote_state(state)
SetRemoteState(p) ==
    /\ proc[p].pc = "set_remote_state"
    /\ LET r == proc[p]
           backsnap == r.backsnaps[r.i]
           state == [backsnap.state EXCEPT
                        !.remote_state = [none |-> FALSE, indexes |-> r.indexes]]
           r2 == [r EXCEPT !.backsnaps[r.i].state = state, !.eff = r.eff \cup {"set"}]
       IN /\ SnapExists(backsnap.name)
          /\ snaps' = SnapshotSet(backsnap.name, StateToData(state))
          /\ proc' = [proc EXCEPT ![p] =
                         IF r.op = "backup" THEN [r2 EXCEPT !.pc = "set_stored"]
                         ELSE [r2 EXCEPT !.pc = "ret", !.res = "ok"]]
    /\ UNCHANGED <<nsid, gone, remotevars, envvars, lock, nops>>

\* line 181: backsnap.set_stored(True), then line 182
SetStored(p) ==
    /\ proc[p].op = "backup" /\ proc[p].pc = "set_stored"
    /\ LET r == proc[p]
           backsnap == r.backsnaps[r.i]
           state == [backsnap.state EXCEPT !.stored = TRUE]
           r2 == [r EXCEPT !.backsnaps[r.i].state = state, !.eff = r.eff \cup {"set"}]
       IN /\ SnapExists(backsnap.name)
          /\ snaps' = SnapshotSet(backsnap.name, StateToData(state))
          /\ proc' = [proc EXCEPT ![p] =
                         IF r.previous # 0 THEN [r2 EXCEPT !.pc = "destroy"]
                         ELSE At(r2, LoopTop(r2.backsnaps, r.i + 1, r.i))]
    /\ UNCHANGED <<nsid, gone, remotevars, envvars, lock, nops>>

\* line 183: previous.snapshot.destroy(), then line 184
Destroy(p) ==
    /\ proc[p].op = "backup" /\ proc[p].pc = "destroy"
    /\ LET r == proc[p]
           previous == r.backsnaps[r.previous]
           r2 == [r EXCEPT !.eff = r.eff \cup {"destroy"}]
       IN /\ SnapExists(previous.name)
          /\ snaps' = SnapshotDestroy(previous.name)
          /\ gone' = gone \cup {[name |-> previous.name,
                                 content |-> GetSnapshot(previous.name).content]}
          /\ proc' = [proc EXCEPT ![p] = At(r2, LoopTop(r.backsnaps, r.i + 1, r.i))]
    /\ UNCHANGED <<nsid, remotevars, envvars, lock, nops>>

\* any step of a running operation raises; the exception leaves the operation
Fail(p) ==
    /\ Running(p)
    /\ proc' = [proc EXCEPT ![p].pc = "ret", ![p].res = "failed",
                            ![p].failedat = proc[p].pc]
    /\ UNCHANGED <<fsvars, remotevars, envvars, lock, nops>>

\* the operation is left; the with block of backup() closes the lock file
Return(p) ==
    /\ proc[p].pc = "ret"
    /\ lock' = IF proc[p].held THEN [lock EXCEPT ![proc[p].bid] = NoProc] ELSE lock
    /\ proc' = [proc EXCEPT ![p] = Idle]
    /\ UNCHANGED <<fsvars, remotevars, envvars, nops>>

(***************************************************************************)
(* Backup.index.                                                           *)
(***************************************************************************)
\* index(): the latest stored Backsnap is read and remote.index is entered
IndexStart(p, bid) ==
    /\ proc[p].pc = "idle"
    /\ nops < MaxOps
    /\ LET latest == get_latest_stored(bid)
           r == [Idle EXCEPT !.op = "index", !.bid = bid, !.backsnaps = latest, !.i = 1]
       IN proc' = [proc EXCEPT ![p] =
                      IF latest = <<>> THEN [r EXCEPT !.pc = "ret", !.res = "ok"]
                      ELSE EnterIndex(r)]
    /\ nops' = nops + 1
    /\ UNCHANGED <<fsvars, remotevars, envvars, lock>>

(***************************************************************************)
(* restore, with meta_discovery the current head of the backup id.         *)
(***************************************************************************)
\* meta_discovery(fsguid, id_): remote.get_current_meta at backup scope
meta_discovery(fsguid, id_) ==
    LET path == get_currentpath(fsguid, id_, 0)
    IN IF path \in DOMAIN rnamed THEN <<rnamed[path]>> ELSE <<>>

\* restore lines 187-189
RestoreStart(p, bid) ==
    /\ proc[p].pc = "idle"
    /\ nops < MaxOps
    /\ LET latest_meta == meta_discovery(FsGuid, bid)
           r == [Idle EXCEPT !.op = "restore", !.bid = bid, !.latest = latest_meta]
       IN proc' = [proc EXCEPT ![p] =
                      IF latest_meta = <<>> THEN [r EXCEPT !.pc = "ret", !.res = "failed"]
                      ELSE [r EXCEPT !.pc = "recv", !.rn = 0]]
    /\ nops' = nops + 1
    /\ UNCHANGED <<fsvars, remotevars, envvars, lock>>

\* restore lines 190-195: generation rn is fetched and received
RestoreRecv(p) ==
    /\ proc[p].op = "restore" /\ proc[p].pc = "recv"
    /\ LET r == proc[p]
           latest_meta == r.latest[1]
           metakey == KeyFromKey(latest_meta.key, r.rn)
       IN /\ HasData(metakey)
          /\ CanRecv(r.tgt, get_data(metakey))
          /\ proc' = [proc EXCEPT ![p] =
                         [r EXCEPT !.tgt = Recv(r.tgt, get_data(metakey)),
                                   !.rn = r.rn + 1,
                                   !.pc = IF r.rn + 1 > latest_meta.key.n THEN "ret"
                                          ELSE "recv",
                                   !.res = IF r.rn + 1 > latest_meta.key.n THEN "ok"
                                           ELSE r.res]]
    /\ UNCHANGED <<fsvars, remotevars, envvars, lock, nops>>

\* a failed restore that removes what it had received
RestoreRecvRaise_cleanup(p) ==
    /\ proc[p].op = "restore" /\ proc[p].pc = "recv"
    /\ proc' = [proc EXCEPT ![p].pc = "ret", ![p].res = "failed",
                            ![p].failedat = "recv", ![p].tgt = Idle.tgt]
    /\ UNCHANGED <<fsvars, remotevars, envvars, lock, nops>>

\* restore lines 190-195: get_data or zfs recv of generation rn raises; zfs
\* discards the stream it was receiving
RestoreRecvRaise(p) ==
    /\ proc[p].op = "restore" /\ proc[p].pc = "recv"
    /\ proc' = [proc EXCEPT ![p].pc = "ret", ![p].res = "failed",
                            ![p].failedat = "recv"]
    /\ UNCHANGED <<fsvars, remotevars, envvars, lock, nops>>

(***************************************************************************)
(* Environment: the dataset is written to.                                 *)
(***************************************************************************)
Mutate ==
    /\ content < MaxData
    /\ content' = content + 1
    /\ UNCHANGED <<now, cfgvars, daemonvars, callvars, fsvars, remotevars, lock, proc, nops>>

(***************************************************************************)
(* Specifications.                                                         *)
(***************************************************************************)
\* the steps of Backup.backup
BackupStep(p) ==
    \/ Begin(p)
    \/ PutData(p)
    \/ PutDataFail(p)
    \/ PutMeta(p)
    \/ IndexPut(p)
    \/ SetRemoteState(p)
    \/ SetStored(p)
    \/ Destroy(p)
    \/ Fail(p)
    \/ Return(p)

\* the steps of Backup.index
IndexStep(p) ==
    \/ IndexPut(p)
    \/ SetRemoteState(p)
    \/ Fail(p)
    \/ Return(p)

\* the two workers of the daemon on one configured backup: p1 runs backup()
\* and p2 runs index(), while the dataset is being written to
Next ==
    \/ \E force \in BOOLEAN : BackupStart("p1", "a", force)
    \/ BackupStep("p1")
    \/ IndexStart("p2", "a")
    \/ IndexStep("p2")
    \/ Mutate

Spec == Init /\ [][Next]_vars

\* two processes running backup() on two backup ids of the filesystem
LockOps == MaxOps - 1

NextLock ==
    \/ \E p \in Procs, bid \in Bids, force \in BOOLEAN :
          nops < LockOps /\ BackupStart(p, bid, force)
    \/ \E p \in Procs, bid \in Bids, force \in BOOLEAN :
          nops < LockOps /\ BackupLocked(p, bid, force)
    \/ \E p \in Procs : BackupStep(p)

SpecLock == Init /\ [][NextLock]_vars

\* one process running backup, index and restore one after the other, every
\* backup and index running to its end without an exception
NextRestore ==
    \/ RestoreRecvRaise("p1")
    \/ \E force \in BOOLEAN : BackupStart("p1", "a", force)
    \/ Begin("p1")
    \/ PutData("p1")
    \/ PutMeta("p1")
    \/ IndexPut("p1")
    \/ SetRemoteState("p1")
    \/ SetStored("p1")
    \/ Destroy("p1")
    \/ Return("p1")
    \/ IndexStart("p1", "a")
    \/ RestoreStart("p1", "a")
    \/ RestoreRecv("p1")
    \/ Mutate

SpecRestore == Init /\ [][NextRestore]_vars

\* the backup is configured with another remote while no operation runs
Reconfigure(r) ==
    /\ r # backup_remote
    /\ \A p \in Procs : proc[p].pc = "idle"
    /\ backup_remote' = r
    /\ shelf' = [shelf EXCEPT ![backup_remote] =
                    [rdata |-> rdata, rmeta |-> rmeta, rnamed |-> rnamed],
                               ![r] = [rdata |-> <<>>, rmeta |-> <<>>, rnamed |-> <<>>]]
    /\ rdata' = shelf[r].rdata
    /\ rmeta' = shelf[r].rmeta
    /\ rnamed' = shelf[r].rnamed
    /\ UNCHANGED <<now, content, daemonvars, callvars, fsvars, lock, proc, nops>>

\* one process running backup() on a backup whose remote is changed between runs
RemoteOps == MaxOps - 1

NextRemote ==
    \/ \E force \in BOOLEAN : nops < RemoteOps /\ BackupStart("p1", "a", force)
    \/ BackupStep("p1")
    \/ \E r \in Remotes : Reconfigure(r)
    \/ Mutate

SpecRemote == Init /\ [][NextRemote]_vars

(***************************************************************************)
(* Daemon: indexer_daemon and backer_daemon.  The calls of index() and of  *)
(* backup() are taken by their outcome, a return or an exception.          *)
(***************************************************************************)
\* time.time(), in seconds
time_time == now + 1

frame_daemon == <<content, cfgvars, callvars, fsvars, remotevars, lock, proc, nops>>

\* backer_daemon lines 395-402: get_backup and get_latest_stored return
BackerScan ==
    /\ worker["backer"].pc = "scan"
    /\ LET r == worker["backer"]
       IN IF r.idx > Len(BackupList)
          THEN worker' = [worker EXCEPT !["backer"].pc = "top", !["backer"].idx = 1]
          ELSE \E next_ \in {0} \cup {c + Period : c \in 1..time_time} :
                  worker' = [worker EXCEPT
                                !["backer"].next_[BackupList[r.idx]] = next_,
                                !["backer"].idx = r.idx + 1]
    /\ UNCHANGED <<now, finished, frame_daemon>>

\* backer_daemon lines 395-402: get_backup or get_latest_stored raises
BackerScanRaise ==
    /\ worker["backer"].pc = "scan"
    /\ worker["backer"].idx <= Len(BackupList)
    /\ worker' = [worker EXCEPT !["backer"].pc = "dead"]
    /\ UNCHANGED <<now, finished, frame_daemon>>

\* a loop test that does not see the flag
WorkerTop_blind(w) ==
    /\ worker[w].pc = "top"
    /\ worker' = [worker EXCEPT ![w].pc = "loop", ![w].idx = 1]
    /\ UNCHANGED <<now, finished, frame_daemon>>

\* while not finished.is_set(): (lines 383, 403)
WorkerTop(w) ==
    /\ worker[w].pc = "top"
    /\ worker' = [worker EXCEPT ![w].pc = IF finished THEN "exit" ELSE "loop",
                                ![w].idx = 1]
    /\ UNCHANGED <<now, finished, frame_daemon>>

\* indexer_daemon lines 384-385: the next backup is fetched by get_backup
IndexerGet ==
    /\ worker["indexer"].pc = "loop"
    /\ worker' = [worker EXCEPT !["indexer"].pc =
                     IF worker["indexer"].idx > Len(BackupList) THEN "wait" ELSE "call"]
    /\ UNCHANGED <<now, finished, frame_daemon>>

\* indexer_daemon line 385: get_backup raises, outside the try
IndexerGetRaise ==
    /\ worker["indexer"].pc = "loop"
    /\ worker["indexer"].idx <= Len(BackupList)
    /\ worker' = [worker EXCEPT !["indexer"].pc = "dead"]
    /\ UNCHANGED <<now, finished, frame_daemon>>

\* backer_daemon lines 404-405: the next backup is taken when it is due
BackerGet ==
    /\ worker["backer"].pc = "loop"
    /\ LET r == worker["backer"]
       IN worker' = [worker EXCEPT
                        !["backer"].pc =
                            IF r.idx > Len(BackupList) THEN "wait"
                            ELSE IF r.next_[BackupList[r.idx]] < time_time THEN "call"
                            ELSE "loop",
                        !["backer"].idx =
                            IF r.idx <= Len(BackupList)
                               /\ ~(r.next_[BackupList[r.idx]] < time_time)
                            THEN r.idx + 1 ELSE r.idx]
    /\ UNCHANGED <<now, finished, frame_daemon>>

\* the call of index() or backup() returns (lines 387, 407-409)
WorkerCallReturn(w) ==
    /\ worker[w].pc = "call"
    /\ LET r == worker[w]
       IN worker' = [worker EXCEPT
                        ![w].pc = "loop",
                        ![w].idx = r.idx + 1,
                        ![w].res[BackupList[r.idx]] = "ok",
                        ![w].next_ = IF w = "backer"
                                     THEN [r.next_ EXCEPT ![BackupList[r.idx]] =
                                              time_time + Period]
                                     ELSE r.next_]
    /\ UNCHANGED <<now, finished, frame_daemon>>

\* a backup() that raised is put off as if it had returned
WorkerCallRaise_putoff(w) ==
    /\ worker[w].pc = "call"
    /\ worker' = [worker EXCEPT ![w].pc = "loop", ![w].idx = worker[w].idx + 1,
                                ![w].res[BackupList[worker[w].idx]] = "raised",
                                ![w].next_[BackupList[worker[w].idx]] = time_time + Period]
    /\ UNCHANGED <<now, finished, frame_daemon>>

\* the call of index() or backup() raises; the exception is logged
\* (lines 388-389, 410-411)
WorkerCallRaise(w) ==
    /\ worker[w].pc = "call"
    /\ worker' = [worker EXCEPT ![w].pc = "loop", ![w].idx = worker[w].idx + 1,
                                ![w].res[BackupList[worker[w].idx]] = "raised"]
    /\ UNCHANGED <<now, finished, frame_daemon>>

\* if finished.wait(timeout): break (lines 390-391, 412-413)
WorkerWait(w) ==
    /\ worker[w].pc = "wait"
    /\ worker' = [worker EXCEPT ![w].pc = IF finished THEN "exit" ELSE "top"]
    /\ UNCHANGED <<now, finished, frame_daemon>>

\* signal_handler: SIGINT or SIGTERM
Signal ==
    /\ ~finished
    /\ finished' = TRUE
    /\ UNCHANGED <<now, worker, frame_daemon>>

\* a second passes
Tick ==
    /\ now < MaxTime
    /\ now' = now + 1
    /\ UNCHANGED <<finished, worker, frame_daemon>>

NextDaemon ==
    \/ BackerScan
    \/ BackerScanRaise
    \/ \E w \in Workers : WorkerTop(w)
    \/ IndexerGet
    \/ IndexerGetRaise
    \/ BackerGet
    \/ \E w \in Workers : WorkerCallReturn(w)
    \/ \E w \in Workers : WorkerCallRaise(w)
    \/ \E w \in Workers : WorkerWait(w)
    \/ Signal
    \/ Tick

SpecDaemon == Init /\ [][NextDaemon]_vars

\* the steps of worker thread w
WorkerStep(w) ==
    \/ w = "backer" /\ (BackerScan \/ BackerScanRaise \/ BackerGet)
    \/ w = "indexer" /\ (IndexerGet \/ IndexerGetRaise)
    \/ WorkerTop(w)
    \/ WorkerCallReturn(w)
    \/ WorkerCallRaise(w)
    \/ WorkerWait(w)

\* the daemon with threads that are scheduled as long as they can run, whose
\* calls of index() and backup() come to an end, and whose wait ends when
\* the flag is set or the timeout has passed
SpecDaemonLive == SpecDaemon /\ \A w \in Workers : WF_vars(WorkerStep(w))

\* one process running backup() and index() one after the other, over days
NextIndexing ==
    \/ \E force \in BOOLEAN : BackupStart("p1", "a", force)
    \/ BackupStep("p1")
    \/ IndexStart("p1", "a")
    \/ Tick

SpecIndexing == Init /\ [][NextIndexing]_vars

(***************************************************************************)
(* put_data on its own: calls with any stream under a key, on either       *)
(* backend, over whatever earlier calls have left under the key.           *)
(***************************************************************************)
PutKeys == {Key(FsGuid, "a", 1, n) : n \in 1..MaxN}

PutStreams(metakey) ==
    LET self == BacksnapName(metakey)
        other == BacksnapName(KeyFromKey(metakey, metakey.n - 1))
    IN {[from |-> NoName, to |-> self, base |-> c, delta |-> 0] : c \in 0..MaxData}
       \cup {[from |-> other, to |-> self, base |-> 0, delta |-> c] : c \in 0..MaxData}

InitPut ==
    /\ now = 0
    /\ content = 0
    /\ snaps = <<>>
    /\ nsid = 0
    /\ rdata = <<>>
    /\ rmeta = <<>>
    /\ rnamed = <<>>
    /\ lock = [b \in Bids |-> NoProc]
    /\ proc = [p \in Procs |-> Idle]
    /\ gone = {}
    /\ nops = 0
    /\ backup_remote \in {Remote, RemoteS3}
    /\ shelf = [r \in Remotes |-> [rdata |-> <<>>, rmeta |-> <<>>, rnamed |-> <<>>]]
    /\ finished = FALSE
    /\ worker = [w \in Workers |->
                    [pc |-> IF w = "backer" THEN "scan" ELSE "top", idx |-> 1,
                     next_ |-> [b \in Bids |-> 0],
                     res |-> [b \in Bids |-> "none"]]]
    /\ put_call = <<>>
    /\ create_call = <<>>

\* put_data(metakey, stream) returning
PutDataCall(metakey, stream) ==
    /\ rdata' = put_data(metakey, stream)
    /\ put_call' = [metakey |-> metakey, stream |-> stream]
    /\ UNCHANGED <<now, content, cfgvars, daemonvars, create_call, fsvars, rmeta, rnamed,
                   lock, proc, nops>>

\* put_data(metakey, stream) raising after w blocks
PutDataRaise(metakey, stream, w) ==
    /\ rdata' = put_data_partial(metakey, stream, w)
    /\ put_call' = <<>>
    /\ UNCHANGED <<now, content, cfgvars, daemonvars, create_call, fsvars, rmeta, rnamed,
                   lock, proc, nops>>

NextPut ==
    \/ \E metakey \in PutKeys : \E stream \in PutStreams(metakey) :
          PutDataCall(metakey, stream)
    \/ \E metakey \in PutKeys : \E stream \in PutStreams(metakey) :
          \E w \in 0..(Size(stream) - 1) : PutDataRaise(metakey, stream, w)

SpecPut == InitPut /\ [][NextPut]_vars

(***************************************************************************)
(* Backsnap.create on its own, as common.py and backer.py spell it:        *)
(* State.create hands the Key to Meta.create, whose second parameter is    *)
(* the backup id.                                                          *)
(***************************************************************************)
CreateKeys ==
    {Key(FsGuid, bid, sid, n) : bid \in Bids, sid \in 1..MaxOps, n \in 0..MaxN}

\* a Python value with its type: a str or a Meta.Key
PyStr(value) == [type |-> "str", value |-> value]
PyKey(value) == [type |-> "Key", value |-> value]

\* Meta.create(fs, id_): Meta.Key.create(guid, id_) draws a new sid and
\* starts at n = 0, whatever id_ is
MetaCreateCoded(id_, sid, t) ==
    [key |-> KeyCreate(FsGuid, id_, sid),
     creation |-> MetaCreation(t).creation,
     sidcreation |-> MetaCreation(t).sidcreation]

\* json.dumps in State.to_data takes a key whose id is a string, not a Key
Serialisable(meta) == meta.key.id.type = "str"

\* Backsnap.create(fs, remote, metakey): State.create builds the Meta, and
\* to_data raises on it before fs.snapshot is called
BacksnapCreateCall(metakey) ==
    /\ nsid < MaxOps
    /\ nsid' = nsid + 1
    /\ LET meta == MetaCreateCoded(PyKey(metakey), nsid + 1, now)
       IN create_call' = [metakey |-> metakey, meta |-> meta,
                          raised |-> ~Serialisable(meta)]
    /\ UNCHANGED <<now, content, cfgvars, daemonvars, put_call, snaps, gone, remotevars,
                   lock, proc, nops>>

NextCreate ==
    \/ \E metakey \in CreateKeys : BacksnapCreateCall(metakey)
    \/ Tick

SpecCreate == Init /\ [][NextCreate]_vars

(***************************************************************************)
(* backup() on a filesystem that already holds snapshots: an older series  *)
(* of the backup id and the series after it, both left unstored, a         *)
(* Backsnap of another backup id, a snapshot of another engine version and *)
(* one without the version property.                                       *)
(***************************************************************************)
\* a Backsnap that Backsnap.create left at second t, not stored
LeftBacksnap(metakey, t) ==
    [name |-> BacksnapName(metakey), creation |-> t, version |-> VERSION,
     state |-> StateToData(StateCreate(metakey, Remote, t)), content |-> 0]

OtherSnapshots ==
    <<[name |-> <<"backer", "9", "a", 1, 0>>, creation |-> 0, version |-> "9",
       state |-> <<>>, content |-> 0],
      [name |-> <<"daily">>, creation |-> 0, version |-> "-",
       state |-> <<>>, content |-> 0]>>

InitOthers ==
    /\ now = 1
    /\ content = 0
    /\ snaps = <<LeftBacksnap(Key(FsGuid, "a", 1, 0), 0)>> \o OtherSnapshots
               \o <<LeftBacksnap(Key(FsGuid, "a", 2, 0), 1),
                    LeftBacksnap(Key(FsGuid, "b", 3, 0), 1)>>
    /\ nsid = 3
    /\ rdata = <<>>
    /\ rmeta = <<>>
    /\ rnamed = <<>>
    /\ lock = [b \in Bids |-> NoProc]
    /\ proc = [p \in Procs |-> Idle]
    /\ gone = {}
    /\ nops = 0
    /\ backup_remote = Remote
    /\ shelf = [r \in Remotes |-> [rdata |-> <<>>, rmeta |-> <<>>, rnamed |-> <<>>]]
    /\ finished = FALSE
    /\ worker = [w \in Workers |->
                    [pc |-> IF w = "backer" THEN "scan" ELSE "top", idx |-> 1,
                     next_ |-> [b \in Bids |-> 0],
                     res |-> [b \in Bids |-> "none"]]]
    /\ put_call = <<>>
    /\ create_call = <<>>

NextOthers ==
    \/ \E force \in BOOLEAN : BackupStart("p1", "a", force)
    \/ BackupStep("p1")
    \/ Mutate

SpecOthers == InitOthers /\ [][NextOthers]_vars

(***************************************************************************)
(* Properties.                                                             *)
(***************************************************************************)
\* the persisted state of the j-th snapshot
Persisted(j) == StateFromData(snaps[j].state)

BackerSnaps == {j \in 1..Len(snaps) : snaps[j].version = VERSION}

Named(ss, name) == {j \in 1..Len(ss) : ss[j].name = name}

InBackup(p) == proc[p].op = "backup" /\ proc[p].held

\* C4: two processes inside backup() hold the locks of different backup ids;
\* a backup() invoked while the lock of its backup id is held ends at once as
\* failed, and neither that step nor the invocation creates a snapshot,
\* writes to the remote, rewrites a property or destroys a snapshot
C4_OneBackupPerBid ==
    /\ [](\A p, q \in Procs :
             (p # q /\ InBackup(p) /\ InBackup(q)) => proc[p].bid # proc[q].bid)
    /\ [](\A p \in Procs :
             (proc[p].op = "backup" /\ ~proc[p].held) =>
                 /\ proc[p].pc = "ret"
                 /\ proc[p].res = "failed"
                 /\ proc[p].eff = {})
    /\ [][\A p \in Procs, bid \in Bids :
             (proc[p].pc = "idle" /\ proc'[p].op = "backup" /\ proc'[p].bid = bid
              /\ lock[bid] # NoProc) =>
                 /\ ~proc'[p].held
                 /\ UNCHANGED <<snaps, rdata, rmeta, rnamed, lock>>]_vars

\* two processes are in the middle of _backup, each on its own backup id
C4_Witness ==
    \E p, q \in Procs :
        /\ InBackup(p) /\ InBackup(q)
        /\ proc[p].bid # proc[q].bid
        /\ "put_data" \in proc[p].eff /\ "put_data" \in proc[q].eff
        /\ Running(p) /\ Running(q)

\* process p has reached the end of _backup without an exception
Done(p) == proc[p].op = "backup" /\ proc[p].pc = "ret" /\ proc[p].res = "ok"

\* process p is past the first lines of _backup
Walking(p) == proc[p].op = "backup" /\ proc[p].held /\ proc[p].pc # "begin"

\* the chain process p found was one stored Backsnap taken of the dataset as it is
FoundCurrent(p) ==
    /\ Len(proc[p].backsnaps) - proc[p].created = 1
    /\ proc[p].todo = <<>>
    /\ proc[p].headc = proc[p].c0

CurrentPaths(key) ==
    {get_currentpath(key.fsguid, "-", 0),
     get_currentpath(key.fsguid, key.id, 0),
     get_currentpath(key.fsguid, key.id, key.sid)}

FoundUnstored(p) ==
    /\ proc[p].todo # <<>>
    /\ proc[p].headc = proc[p].c0

\* the persisted states of the snapshots named name
PersistedOf(name) == {Persisted(j) : j \in Named(snaps, name)}

Restored(p) == proc[p].op = "restore" /\ proc[p].pc = "ret" /\ proc[p].res = "ok"

\* the content of the dataset when the snapshot named name was taken
ContentOf(name) ==
    CHOOSE c \in 0..MaxData :
        \/ \E j \in Named(snaps, name) : snaps[j].content = c
        \/ \E g \in gone : g.name = name /\ g.content = c

\* the names of generations 0..n of the series of key
RECURSIVE SeriesNames(_, _)
SeriesNames(key, n) ==
    IF n < 0 THEN <<>>
    ELSE Append(SeriesNames(key, n - 1), BacksnapName(KeyFromKey(key, n)))

WouldExtend(p) ==
    LET chain == get_latest_backsnaps(proc[p].bid)
    IN /\ proc[p].op = "backup" /\ proc[p].pc \in {"begin", "ret"}
       /\ chain # <<>>
       /\ proc[p].force \/ GetSnapshot(chain[Len(chain)].name).content # content

\* the configured remote is not the one the head of the chain of p records
OtherRemote(p) ==
    LET chain == get_latest_backsnaps(proc[p].bid)
        head == chain[Len(chain)].state
    IN \/ backup_remote.type_ # head.remote_type
       \/ backup_remote.cfg # head.remote_cfg

C12_WorkersSurviveExceptions ==
    \A w \in Workers :
        /\ worker[w].pc = "dead" => finished
        /\ worker[w].pc = "exit" => finished

\* the keys persisted in the snapshots ss that carry the engine version
PersistedKeys(ss) ==
    {StateFromData(ss[j].state).meta.key : j \in {l \in 1..Len(ss) : ss[l].version = VERSION}}

Recorded(p) == proc[p].backsnaps[proc[p].i].state.remote_state.indexes

\* the names whose recorded path is the path index() computed
Matching(p) ==
    {j \in 1..Len(IndexNames) :
        /\ IndexNames[j] \in DOMAIN Recorded(p)
        /\ Recorded(p)[IndexNames[j]] = proc[p].named[IndexNames[j]]}

C15_PutDataReplaces ==
    put_call # <<>> => rdata[put_call.metakey] = Encode(put_call.stream)

PersistedMetas ==
    {Persisted(j).meta : j \in BackerSnaps} \cup {rmeta[key] : key \in DOMAIN rmeta}

StoredIn(ss, name) == \E j \in Named(ss, name) : StateFromData(ss[j].state).stored

C21_CreateKeepsKey ==
    create_call # <<>> =>
        /\ ~create_call.raised
        /\ create_call.meta.key.fsguid = create_call.metakey.fsguid
        /\ create_call.meta.key.sid = create_call.metakey.sid
        /\ create_call.meta.key.n = create_call.metakey.n
        /\ create_call.meta.key.id = PyStr(create_call.metakey.id)

\* the backup the worker is at in its pass over the configured backups
AtBackup(w) == BackupList[worker[w].idx]

\* C22: the backer invokes backup() of the backup it is at exactly when the
\* next-time of that backup is in the past; when the call returns the
\* next-time of that backup is the time then plus the period, when it
\* raises the next-time is the one it was, and no other next-time changes
C22_BackerNextTime ==
    [][LET r == worker["backer"]
           r2 == worker'["backer"]
       IN /\ (r.pc = "loop" /\ r2 # r /\ r.idx <= Len(BackupList)) =>
                (r2.pc = "call" <=> r.next_[AtBackup("backer")] < time_time)
          /\ (r2.pc = "call" /\ r.pc # "call") => r.pc = "loop"
          /\ (r.pc = "call" /\ r2 # r) =>
                /\ r2.res[AtBackup("backer")] \in {"ok", "raised"}
                /\ r2.res[AtBackup("backer")] = "ok" =>
                      r2.next_ = [r.next_ EXCEPT ![AtBackup("backer")] = time_time + Period]
                /\ r2.res[AtBackup("backer")] = "raised" => r2.next_ = r.next_
          /\ (r.pc \notin {"call", "scan"}) => r2.next_ = r.next_]_vars

\* the backer invokes again, at a later tick, a backup() that has raised
C22_Witness ==
    /\ worker["backer"].pc = "call"
    /\ worker["backer"].res[AtBackup("backer")] = "raised"
    /\ now > 0

\* worker thread w has ended
Ended(w) == worker[w].pc \in {"exit", "dead"}

\* C23: once the termination flag is set both worker threads come to an
\* end, and a worker that tests the flag at the top of its loop or wakes
\* from its wait when the flag is set ends there and starts no other tick
C23_WorkersExitOnFlag ==
    /\ finished ~> (\A w \in Workers : Ended(w))
    /\ [][\A w \in Workers :
             (worker[w].pc \in {"top", "wait"} /\ finished /\ worker'[w] # worker[w]) =>
                 worker'[w].pc = "exit"]_vars

\* both workers have left their loops on the flag, the backer after a
\* backup() that returned
C23_Witness ==
    /\ finished
    /\ \A w \in Workers : worker[w].pc = "exit"
    /\ \E b \in Bids : worker["backer"].res[b] = "ok"

RemoteStateIn(ss, name) == {StateFromData(ss[j].state).remote_state : j \in Named(ss, name)}

BacksnapsOf(ss, bid) ==
    {j \in 1..Len(ss) :
        ss[j].version = VERSION /\ StateFromData(ss[j].state).meta.key.id = bid}

\* the series of backup id bid whose Backsnaps include the one created last
NewestSid(bid) ==
    LET js == BacksnapsOf(snaps, bid)
        j == CHOOSE j \in js : \A k \in js : snaps[k].creation <= snaps[j].creation
    IN StateFromData(snaps[j].state).meta.key.sid

\* snapshot s is a Backsnap of series sid of backup id bid
InSeries(s, bid, sid) ==
    /\ s.version = VERSION
    /\ StateFromData(s.state).meta.key.id = bid
    /\ StateFromData(s.state).meta.key.sid = sid

C30_NoCallAfterFlag ==
    [][\A w \in Workers :
          (finished /\ worker[w].pc # "call") => worker'[w].pc # "call"]_vars

====
